---- MODULE Spec2Model ----
(***************************************************************************)
(* Model of the SAK AI Studio demo back ends: src/server.js and the        *)
(* server variants src/unnamed/part_000 .. part_003.  One inbound request  *)
(* is followed from its arrival to its answer; every `await fetch` of a    *)
(* handler is a step whose result is chosen by the provider.               *)
(*                                                                         *)
(* Strings are sequences of chunks: a chunk is one character ("a", " ",    *)
(* "\n") or a literal piece of a message ("Server error: ").  String       *)
(* concatenation is \o.  The JavaScript value undefined and a number are   *)
(* the reserved values `undefined` and `Num42`.                            *)
(***************************************************************************)
EXTENDS Integers, Sequences, FiniteSets, TLC

VARIABLES
  variant,     \* which server file handles the request
  endpoint,    \* "chat", "tts" or "image"
  env,         \* process.env: GEMINI_KEY, GOOGLE_TTS_API_KEY, GEMINI_IMAGE_MODEL
  body,        \* req.body
  pc,          \* the handler's position: "start", an await, "done" or "crashed"
  loc,         \* the handler's local variables
  calls,       \* the outbound provider calls issued so far, in order
  inflight,    \* outbound calls issued and not yet completed
  exchanges,   \* the completed outbound calls, in order: the provider's
               \* outcome o and the result r the provider client made of it
  res,         \* the responses sent to the client, in order
  rateWindow,  \* rate limiter: client id -> admission timestamps
  now,         \* rate limiter: the clock, in seconds
  admitted,    \* rate limiter: log of <<client, time>> admissions
  argRaw,      \* normalizePrompt: the argument raw
  argMaxLen,   \* normalizePrompt: the argument maxLen
  normalized   \* normalizePrompt: the values returned so far, in order

vars == <<variant, endpoint, env, body, pc, loc, calls, inflight, exchanges, res,
          rateWindow, now, admitted, argRaw, argMaxLen, normalized>>

\* the variables of a call of normalizePrompt on its own
fnVars == <<argRaw, argMaxLen, normalized>>


---------------------------------------------------------------------------
(* Bounds of the model *)

\* longest voice catalog returned by the voices listing
MaxVoices == 3
\* most content parts in a generateContent response
MaxParts == 2

---------------------------------------------------------------------------
(* JavaScript values and strings *)

undefined == <<"#undefined">>
Num42 == <<"#number">>

IsString(x) == x \notin {undefined, Num42}

\* truthiness of a string / undefined / number 42
Truthy(x) == x # undefined /\ x # <<>>

\* String(x) for the values above
String(x) == IF x = undefined THEN <<"u","n","d","e","f","i","n","e","d">>
             ELSE IF x = Num42 THEN <<"4","2">>
             ELSE x

\* x || y
Or(x, y) == IF Truthy(x) THEN x ELSE y

\* characters that \s and String.prototype.trim treat as whitespace
WS == {" ", "\n"}

RECURSIVE TrimStart(_)
TrimStart(s) == IF s # <<>> /\ Head(s) \in WS THEN TrimStart(Tail(s)) ELSE s

RECURSIVE TrimEnd(_)
TrimEnd(s) == IF s # <<>> /\ s[Len(s)] \in WS
              THEN TrimEnd(SubSeq(s, 1, Len(s) - 1)) ELSE s

\* String.prototype.trim
Trim(s) == TrimEnd(TrimStart(s))

\* s.slice(0, n)
Slice(s, n) == SubSeq(s, 1, IF Len(s) < n THEN Len(s) ELSE n)

\* s.replace(/\s+/g, " "): every maximal run of whitespace becomes one space
\* (a whitespace character is dropped when the one before it is whitespace)
CollapseWs(s) ==
  LET withPrev == [i \in 1..Len(s) |-> <<s[i], IF i = 1 THEN "" ELSE s[i - 1]>>]
      startsRun(p) == ~(p[1] \in WS /\ p[2] \in WS)
      kept == SelectSeq(withPrev, startsRun)
  IN [i \in 1..Len(kept) |-> IF kept[i][1] \in WS THEN " " ELSE kept[i][1]]

\* arr.join("") of an array of strings
RECURSIVE Join(_)
Join(arr) == IF arr = <<>> THEN <<>> ELSE Head(arr) \o Join(Tail(arr))

\* arr.map(f)
Map(f(_), arr) == [i \in 1..Len(arr) |-> f(arr[i])]

\* n copies of the chunk c
Repeat(c, n) == [i \in 1..n |-> c]

---------------------------------------------------------------------------
(* src/server.js: constants and helpers *)

PROMPT_MAX == 900
REWRITE_MAX == 220
SNIPPET_LEN == 260
TTS_TEXT_MAX == 4000

CHAT_MODEL == "gemini-2.5-flash"
IMAGEN_MODEL == "imagen-4.0-generate-001"

normalizePrompt(raw, maxLen) ==
  LET s1 == Trim(String(Or(raw, <<>>)))
      s2 == Trim(CollapseWs(s1))
  IN IF Len(s2) > maxLen THEN Slice(s2, maxLen) ELSE s2

---------------------------------------------------------------------------
(* What a provider can answer to one outbound call *)

\* HTTP statuses the provider answers with; r.ok is 200..299
Statuses == {200, 404}
Ok(status) == status \in 200..299

\* content-type headers, and those whose lower case includes "application/json"
ContentTypes == {"application/json; charset=UTF-8", "text/html"}
CtIsJson(ct) == ct \in {"application/json; charset=UTF-8"}

\* predictions[0] of an Imagen response: the four fields extractImageB64 probes
NoPrediction == [bytesBase64Encoded |-> undefined, image_bytesBase64Encoded |-> undefined,
                 imageBytes |-> undefined, image_imageBytes |-> undefined]

\* a content part carrying an image: inlineData.{mimeType,data} and
\* inline_data.{mime_type,data}
NoInline == [inlineData_data |-> undefined, inlineData_mimeType |-> undefined,
             inline_data_data |-> undefined, inline_data_mime_type |-> undefined]

\* a parsed JSON body, as the fields the handlers read: error and error.message,
\* candidates[0].content.parts (each part given by its text field, and for the
\* image variant by its inline data), predictions[0], audioContent, voices
NoData == [hasError |-> FALSE, errorMessage |-> undefined,
           hasParts |-> FALSE, parts |-> <<>>, inlineParts |-> <<>>,
           prediction |-> NoPrediction,
           audioContent |-> undefined,
           voicesIsArray |-> FALSE, voices |-> <<>>]

\* a response body: its raw text and, when the text is valid JSON, its parse
JsonBody(d) == [text |-> <<"{", "}">>, isJson |-> TRUE, data |-> d]
TextBody(t) == [text |-> t, isJson |-> FALSE, data |-> NoData]

HtmlBodies == {TextBody(Repeat("<", n)) : n \in {3, SNIPPET_LEN + 1}}

\* the outcome of fetch(): a network failure, or a response
NetworkFailure == [net |-> TRUE, status |-> 0, ct |-> "", body |-> TextBody(<<>>)]
Responses(bodies) == [net : {FALSE}, status : Statuses, ct : ContentTypes, body : bodies]
Outcomes(bodies) == {NetworkFailure} \cup Responses(bodies)

---------------------------------------------------------------------------
(* src/server.js fetchJson: a returned value or a thrown error *)

Returned(d) == [threw |-> FALSE, name |-> "", message |-> <<>>, data |-> d]
Thrown(n, m) == [threw |-> TRUE, name |-> n, message |-> m, data |-> NoData]

\* `(${r.status})` in a message
StatusText(status) == IF status = 200 THEN <<"(200)">> ELSE <<"(404)">>

fetchJson(o) ==
  IF o.net THEN Thrown("TypeError", <<"fetch failed">>)
  ELSE IF ~CtIsJson(o.ct)
       THEN Thrown("Error", <<"Non-JSON response ">> \o StatusText(o.status) \o <<". ">>
                             \o Slice(o.body.text, SNIPPET_LEN))
  ELSE IF ~o.body.isJson
       THEN Thrown("SyntaxError", <<"Unexpected token">>)
  ELSE IF ~Ok(o.status)
       THEN Thrown("Error", Or(IF o.body.data.hasError THEN o.body.data.errorMessage ELSE undefined,
                               <<"Request failed ">> \o StatusText(o.status)))
  ELSE Returned(o.body.data)

---------------------------------------------------------------------------
(* Requests *)

\* values of message / text / prompt in a request body
TextInputs == {undefined, <<>>, <<" ">>, <<"h", "i">>, Num42}

\* process.env values: unset or set
KeyValues == {undefined, <<"k">>}

NoBody == [message |-> undefined, text |-> undefined, prompt |-> undefined,
           languageCode |-> undefined, lang |-> undefined, gender |-> undefined,
           voiceType |-> undefined, model |-> undefined]

\* a voice of the catalog; NoVoice stands for undefined (no such element)
NoVoice == [name |-> undefined, languageCodes |-> {}, ssmlGender |-> undefined]

NoLoc == [prompt |-> <<>>, text |-> <<>>, languageCode |-> <<>>, gender |-> <<>>,
          voiceType |-> <<>>, chosen |-> NoVoice, r1 |-> Returned(NoData), tried |-> 0]

\* an outbound call: the API, the model (or ""), the text sent, the voice name
Call(api, model, arg, name) == [api |-> api, model |-> model, arg |-> arg, name |-> name]

\* a JSON response: HTTP status, the error field (undefined when absent), the
\* payload field (reply, audioUrl, audioContent, imageDataUrl; undefined when
\* absent) and any further fields
Json(status, error, value, extra) ==
  [status |-> status, error |-> error, value |-> value, extra |-> extra]

\* res.json(...) and return
Respond(r) == /\ res' = Append(res, r)
              /\ pc' = "done"

\* answer before any outbound call was made
Reply(r) == /\ Respond(r)
            /\ UNCHANGED <<calls, inflight>>

\* issue the handler's first outbound call and await it at position p
First(c, p) == /\ calls' = Append(calls, c)
               /\ inflight' = inflight + 1
               /\ pc' = p
               /\ res' = res

\* the awaited call has completed with outcome o, which the provider client
\* turned into r
Complete(o, r, client) == exchanges' = Append(exchanges, [o |-> o, r |-> r, client |-> client])

\* after the awaited call completed: answer
Finish(r) == /\ Respond(r)
             /\ calls' = calls
             /\ inflight' = inflight - 1

\* as Again, but issuing the next call while the awaited one is still in flight
Again_Concurrent(c, p) == /\ calls' = Append(calls, c)
                          /\ inflight' = inflight + 1
                          /\ pc' = p
                          /\ res' = res

\* after the awaited call completed: issue the next call and await it at p
Again(c, p) == /\ calls' = Append(calls, c)
               /\ inflight' = (inflight - 1) + 1
               /\ pc' = p
               /\ res' = res

\* an exception no try block catches: the async handler's promise rejects and
\* nothing is sent
Crash == /\ pc' = "crashed"
         /\ UNCHANGED <<calls, inflight, res>>

At(v, e, p) == variant = v /\ endpoint = e /\ pc = p

---------------------------------------------------------------------------
(* src/server.js POST /chat *)

\* content parts of a generateContent response, each given by its text field
PartTexts == {undefined, <<>>, <<" ">>, <<"H", "i", " ">>, <<"y", "o">>}
RECURSIVE SeqsUpTo(_, _)
SeqsUpTo(S, n) == IF n = 0 THEN {<<>>}
                  ELSE LET shorter == SeqsUpTo(S, n - 1)
                       IN shorter \cup {Append(q, x) : q \in shorter, x \in S}

ChatData == {NoData} \cup
            {[NoData EXCEPT !.hasParts = TRUE, !.parts = ps] : ps \in SeqsUpTo(PartTexts, MaxParts)}
            \cup {[NoData EXCEPT !.hasError = TRUE, !.errorMessage = <<"quota exceeded">>]}
ChatBodies == {JsonBody(d) : d \in ChatData} \cup HtmlBodies

\* data?.candidates?.[0]?.content?.parts?.map((p) => p?.text || "").join("").trim()
PartText(p) == Or(p, <<>>)
\* as ChatReply, but reading the first part alone
ChatReply_FirstPart(data) ==
  Or(IF data.hasParts /\ data.parts # <<>> THEN Trim(PartText(data.parts[1])) ELSE undefined,
     <<"No response">>)

ChatReply(data) ==
  Or(IF data.hasParts THEN Trim(Join(Map(PartText, data.parts))) ELSE undefined,
     <<"No response">>)

ServerChat ==
  /\ At("server", "chat", "start")
  /\ LET userMessage == Trim(String(Or(body.message, <<>>)))
     IN IF ~Truthy(userMessage)
        THEN Reply(Json(200, undefined, <<"Please type a message.">>, <<>>))
        ELSE IF ~Truthy(env.GEMINI_KEY)
        THEN Reply(Json(200, undefined, <<"Missing GEMINI_KEY in server variables.">>, <<>>))
        ELSE First(Call("generateContent", CHAT_MODEL, userMessage, undefined), "chat_await")
  /\ UNCHANGED <<variant, endpoint, env, body, loc, exchanges, rateWindow, now, admitted, fnVars>>

ServerChatReturn ==
  /\ At("server", "chat", "chat_await")
  /\ \E o \in Outcomes(ChatBodies) :
       LET r == fetchJson(o)
       IN /\ Complete(o, r, "server")
          /\ IF r.threw
             THEN Finish(Json(200, undefined, <<"Server error: ">> \o r.message, <<>>))
             ELSE Finish(Json(200, undefined, ChatReply(r.data), <<>>))
  /\ UNCHANGED <<variant, endpoint, env, body, loc, rateWindow, now, admitted, fnVars>>

---------------------------------------------------------------------------
(* src/server.js POST /image *)

Predictions == {NoPrediction,
                [NoPrediction EXCEPT !.bytesBase64Encoded = <<"B64">>],
                [NoPrediction EXCEPT !.bytesBase64Encoded = <<>>, !.image_imageBytes = <<"IMG">>],
                [NoPrediction EXCEPT !.imageBytes = <<>>]}
ImagenData == {[NoData EXCEPT !.prediction = p] : p \in Predictions}
              \cup {[NoData EXCEPT !.hasError = TRUE, !.errorMessage = <<"blocked">>]}
ImagenBodies == {JsonBody(d) : d \in ImagenData} \cup HtmlBodies

\* what the rewrite call's generateContent can answer
RewriteData == {NoData,
                [NoData EXCEPT !.hasParts = TRUE, !.parts = <<<<" ">>, undefined>>],
                [NoData EXCEPT !.hasParts = TRUE, !.parts = <<<<"c", "a", "t", "\n">>, <<"\n", "s", "k", "y">>>>],
                [NoData EXCEPT !.hasParts = TRUE, !.parts = <<Repeat("x", REWRITE_MAX + 1)>>]}
RewriteBodies == {JsonBody(d) : d \in RewriteData} \cup HtmlBodies

extractImageB64(data) ==
  Or(data.prediction.bytesBase64Encoded,
     Or(data.prediction.image_bytesBase64Encoded,
        Or(data.prediction.imageBytes,
           Or(data.prediction.image_imageBytes, <<>>))))

\* the prompt rewriteImagePrompt makes of the rewrite call's response
rewriteImagePrompt(data) ==
  LET shortText == Or(IF data.hasParts THEN Trim(Join(Map(PartText, data.parts))) ELSE undefined, <<>>)
  IN normalizePrompt(shortText, REWRITE_MAX)

NoImageError == <<"No image data returned. Try simpler prompt or remove sensitive words (child/teen/girl/weapon/blood etc.).">>

ImageOk(b64) == Json(200, undefined, <<"data:image/png;base64,">> \o b64, <<>>)
ImageError(message) == Json(200, <<"Image error: ">> \o message, <<>>, <<>>)

ServerImage ==
  /\ At("server", "image", "start")
  /\ IF ~Truthy(env.GEMINI_KEY)
     THEN /\ Reply(Json(200, <<"Missing GEMINI_KEY in server variables.">>, <<>>, <<>>))
          /\ loc' = loc
     ELSE LET prompt == normalizePrompt(Or(body.prompt, <<>>), PROMPT_MAX)
          IN IF ~Truthy(prompt)
             THEN /\ Reply(Json(200, <<"Please type a prompt.">>, <<>>, <<>>))
                  /\ loc' = loc
             ELSE /\ First(Call("imagen:predict", IMAGEN_MODEL, prompt, undefined), "image_try1")
                  /\ loc' = [loc EXCEPT !.prompt = prompt]
  /\ UNCHANGED <<variant, endpoint, env, body, exchanges, rateWindow, now, admitted, fnVars>>

\* Try 1 returns: answer, or rewrite the prompt when no image was extracted
ServerImageTry1 ==
  /\ At("server", "image", "image_try1")
  /\ \E o \in Outcomes(ImagenBodies) :
       LET r == fetchJson(o)
       IN /\ Complete(o, r, "server")
          /\ IF r.threw
             THEN Finish(ImageError(r.message))
             ELSE IF Truthy(extractImageB64(r.data))
             THEN Finish(ImageOk(extractImageB64(r.data)))
             ELSE Again(Call("generateContent", CHAT_MODEL, loc.prompt, undefined), "image_rewrite")
  /\ UNCHANGED <<variant, endpoint, env, body, loc, rateWindow, now, admitted, fnVars>>

\* the rewrite call returns: synthesize again with the rewritten prompt
ServerImageRewrite ==
  /\ At("server", "image", "image_rewrite")
  /\ \E o \in Outcomes(RewriteBodies) :
       LET r == fetchJson(o)
       IN /\ Complete(o, r, "server")
          /\ IF r.threw
             THEN Finish(ImageError(r.message))
             ELSE Again(Call("imagen:predict", IMAGEN_MODEL, rewriteImagePrompt(r.data), undefined), "image_try2")
  /\ UNCHANGED <<variant, endpoint, env, body, loc, rateWindow, now, admitted, fnVars>>

\* as ServerImageTry2, but synthesizing once more when no image was extracted
ServerImageTry2_Retry ==
  /\ At("server", "image", "image_try2")
  /\ \E o \in Outcomes(ImagenBodies) :
       LET r == fetchJson(o)
       IN /\ Complete(o, r, "server")
          /\ IF r.threw
             THEN Finish(ImageError(r.message))
             ELSE IF ~Truthy(extractImageB64(r.data))
             THEN IF Len(calls) < 4
                  THEN Again(calls[Len(calls)], "image_try2")
                  ELSE Finish(Json(200, NoImageError, <<>>, <<>>))
             ELSE Finish(ImageOk(extractImageB64(r.data)))
  /\ UNCHANGED <<variant, endpoint, env, body, loc, rateWindow, now, admitted, fnVars>>

ServerImageTry2 ==
  /\ At("server", "image", "image_try2")
  /\ \E o \in Outcomes(ImagenBodies) :
       LET r == fetchJson(o)
       IN /\ Complete(o, r, "server")
          /\ IF r.threw
             THEN Finish(ImageError(r.message))
             ELSE IF ~Truthy(extractImageB64(r.data))
             THEN Finish(Json(200, NoImageError, <<>>, <<>>))
             ELSE Finish(ImageOk(extractImageB64(r.data)))
  /\ UNCHANGED <<variant, endpoint, env, body, loc, rateWindow, now, admitted, fnVars>>

---------------------------------------------------------------------------
(* src/server.js POST /tts *)

\* toUpperCase / toLowerCase, chunk by chunk, for the words the handlers compare
UpperChunk(c) == CASE c = "male" -> "MALE"
                   [] c = "female" -> "FEMALE"
                   [] OTHER -> c
LowerChunk(c) == CASE c = "Standard" -> "standard"
                   [] c = "Neural2" -> "neural2"
                   [] c = "WAVENET" -> "wavenet"
                   [] c = "Wavenet" -> "wavenet"
                   [] c = "WaveNet" -> "wavenet"
                   [] OTHER -> c
toUpperCase(s) == Map(UpperChunk, s)
toLowerCase(s) == Map(LowerChunk, s)

\* the voices the listing can return
VoiceStandardMale == [name |-> <<"en-US-", "Standard", "-B">>, languageCodes |-> {<<"en-US">>}, ssmlGender |-> <<"MALE">>]
VoiceNeuralMale == [name |-> <<"en-US-", "Neural2", "-D">>, languageCodes |-> {<<"en-US">>}, ssmlGender |-> <<"male">>]
VoiceWavenetFemale == [name |-> <<"en-US-", "WAVENET", "-F">>, languageCodes |-> {<<"en-US">>}, ssmlGender |-> <<"FEMALE">>]
VoiceStandardFemale == [name |-> <<"en-US-", "Standard", "-C">>, languageCodes |-> {<<"en-US">>}, ssmlGender |-> <<"FEMALE">>]
VoiceKhmer == [name |-> <<"km-KH-", "Standard", "-A">>, languageCodes |-> {<<"km-KH">>}, ssmlGender |-> <<"FEMALE">>]
Voices == {VoiceStandardMale, VoiceNeuralMale, VoiceWavenetFemale, VoiceStandardFemale, VoiceKhmer}

VoicesData == {NoData} \cup
              {[NoData EXCEPT !.voicesIsArray = TRUE, !.voices = vs] : vs \in SeqsUpTo(Voices, MaxVoices)}
VoicesBodies == {JsonBody(d) : d \in VoicesData} \cup HtmlBodies

SynthData == {[NoData EXCEPT !.audioContent = a] : a \in {undefined, <<>>, <<"A", "U", "D">>}}
             \cup {[NoData EXCEPT !.hasError = TRUE, !.errorMessage = <<"Voice does not exist">>]}
SynthBodies == {JsonBody(d) : d \in SynthData} \cup HtmlBodies

\* /Neural2|Wavenet|WaveNet/i.test(name || "")
isNeural(name) ==
  LET n == Or(name, <<>>)
  IN \E i \in 1..Len(n) : LowerChunk(n[i]) \in {"neural2", "wavenet"}

\* arr.find(test), and arr[0]; NoVoice when there is none
Find(arr, test(_)) ==
  IF \E i \in 1..Len(arr) : test(arr[i])
  THEN arr[CHOOSE i \in 1..Len(arr) : test(arr[i]) /\ \A j \in 1..(i - 1) : ~test(arr[j])]
  ELSE NoVoice
Elem0(arr) == IF arr = <<>> THEN NoVoice ELSE arr[1]
OrVoice(v, w) == IF v # NoVoice THEN v ELSE w

NeuralVoice(v) == isNeural(v.name)
StandardVoice(v) == ~isNeural(v.name)

preferNeural(arr) == OrVoice(Find(arr, NeuralVoice), Elem0(arr))
\* as preferStandard, but taking the first voice whatever its tier
preferStandard_First(arr) == Elem0(arr)

preferStandard(arr) == OrVoice(Find(arr, StandardVoice), Elem0(arr))

byLang(voices, languageCode) ==
  LET test(v) == languageCode \in v.languageCodes
  IN SelectSeq(voices, test)

byLangGender(voices, languageCode, gender) ==
  LET test(v) == toUpperCase(String(Or(v.ssmlGender, <<>>))) = gender
  IN SelectSeq(byLang(voices, languageCode), test)

chosenVoice(voices, languageCode, gender, voiceType) ==
  IF voiceType = <<"standard">>
  THEN OrVoice(preferStandard(byLangGender(voices, languageCode, gender)),
               OrVoice(preferStandard(byLang(voices, languageCode)), preferStandard(voices)))
  ELSE OrVoice(preferNeural(byLangGender(voices, languageCode, gender)),
               OrVoice(preferNeural(byLang(voices, languageCode)), preferNeural(voices)))

TtsError(message) == Json(200, message, <<>>, <<>>)

ServerTts ==
  /\ At("server", "tts", "start")
  /\ LET text == Trim(String(Or(body.text, <<>>)))
         languageCode == String(Or(body.languageCode, <<"en-US">>))
         genderRaw == toUpperCase(String(Or(body.gender, <<"FEMALE">>)))
         gender == IF genderRaw = <<"MALE">> THEN <<"MALE">> ELSE <<"FEMALE">>
         voiceType == toLowerCase(String(Or(body.voiceType, <<"neural">>)))
     IN IF ~Truthy(text)
        THEN /\ Reply(TtsError(<<"Please type text for TTS.">>))
             /\ loc' = loc
        ELSE IF ~Truthy(env.GOOGLE_TTS_API_KEY)
        THEN /\ Reply(TtsError(<<"Missing GOOGLE_TTS_API_KEY in Railway Variables.">>))
             /\ loc' = loc
        ELSE /\ First(Call("voices:list", "", <<>>, undefined), "tts_voices")
             /\ loc' = [loc EXCEPT !.text = text, !.languageCode = languageCode,
                                   !.gender = gender, !.voiceType = voiceType]
  /\ UNCHANGED <<variant, endpoint, env, body, exchanges, rateWindow, now, admitted, fnVars>>

\* the voices listing returns: choose a voice and synthesize with its name
ServerTtsVoices ==
  /\ At("server", "tts", "tts_voices")
  /\ \E o \in Outcomes(VoicesBodies) :
       LET r == fetchJson(o)
           voices == IF r.data.voicesIsArray THEN r.data.voices ELSE <<>>
           chosen == chosenVoice(voices, loc.languageCode, loc.gender, loc.voiceType)
       IN /\ Complete(o, r, "server")
          /\ IF r.threw
             THEN /\ Finish(TtsError(<<"TTS error: ">> \o r.message))
                  /\ loc' = loc
             ELSE IF ~Truthy(chosen.name)
             THEN /\ Finish(TtsError(<<"No available voice found for this language/gender.">>))
                  /\ loc' = [loc EXCEPT !.chosen = chosen]
             ELSE /\ Again(Call("text:synthesize", "", Slice(loc.text, TTS_TEXT_MAX), chosen.name), "tts_synth")
                  /\ loc' = [loc EXCEPT !.chosen = chosen]
  /\ UNCHANGED <<variant, endpoint, env, body, rateWindow, now, admitted, fnVars>>

ServerTtsSynth ==
  /\ At("server", "tts", "tts_synth")
  /\ \E o \in Outcomes(SynthBodies) :
       LET r == fetchJson(o)
       IN /\ Complete(o, r, "server")
          /\ IF r.threw
             THEN Finish(TtsError(<<"TTS error: ">> \o r.message))
             ELSE IF ~Truthy(r.data.audioContent)
             THEN Finish(TtsError(<<"No audioContent returned from TTS.">>))
             ELSE Finish(Json(200, undefined, <<"data:audio/mpeg;base64,">> \o r.data.audioContent,
                              <<"voiceName">> \o loc.chosen.name))
  /\ UNCHANGED <<variant, endpoint, env, body, loc, rateWindow, now, admitted, fnVars>>

---------------------------------------------------------------------------
(* node-fetch helpers shared by the variants of src/unnamed *)

\* await response.json(): the parsed body, or a thrown error
responseJson(o) ==
  IF o.body.isJson THEN Returned(o.body.data)
  ELSE Thrown("FetchError", <<"invalid json response body">>)

\* data?.error?.message
ErrorMessage(data) == IF data.hasError THEN data.errorMessage ELSE undefined

\* data?.candidates?.[0]?.content?.parts?.map(p => p.text).join("")
\* (join turns an undefined element into "", as p.text || "" does)
JoinedParts(data) == IF data.hasParts THEN Join(Map(PartText, data.parts)) ELSE undefined

\* `Gemini API error (${response.status})`
GeminiApiError(status) == <<"Gemini API error ">> \o StatusText(status)

\* (x || "").trim() of a request field: a TypeError when x is a number
CanTrim(x) == x # Num42

---------------------------------------------------------------------------
(* src/unnamed/part_000, first server (lines 1-51): POST /chat *)

Part000aChat ==
  /\ At("part_000a", "chat", "start")
  /\ IF ~CanTrim(body.message) THEN Crash
     ELSE LET userMessage == Trim(Or(body.message, <<>>))
          IN IF ~Truthy(userMessage)
             THEN Reply(Json(200, undefined, <<"Please type a message.">>, <<>>))
             ELSE IF ~Truthy(env.GEMINI_KEY)
             THEN Reply(Json(200, undefined, <<"Missing GEMINI_KEY in Railway Variables.">>, <<>>))
             ELSE First(Call("generateContent", "gemini-2.5-flash", userMessage, undefined), "chat_await")
  /\ UNCHANGED <<variant, endpoint, env, body, loc, exchanges, rateWindow, now, admitted, fnVars>>

Part000aChatReturn ==
  /\ At("part_000a", "chat", "chat_await")
  /\ \E o \in Outcomes(ChatBodies) :
       LET r == IF o.net THEN Thrown("FetchError", <<"fetch failed">>) ELSE responseJson(o)
       IN /\ Complete(o, r, "part_000a")
          /\ IF r.threw
             THEN Finish(Json(200, undefined, <<"Server error: ">> \o r.message, <<>>))
             ELSE IF ~Ok(o.status)
             THEN Finish(Json(200, undefined, Or(ErrorMessage(r.data), GeminiApiError(o.status)), <<>>))
             ELSE Finish(Json(200, undefined, Or(JoinedParts(r.data), <<"No response">>), <<>>))
  /\ UNCHANGED <<variant, endpoint, env, body, loc, rateWindow, now, admitted, fnVars>>

---------------------------------------------------------------------------
(* src/unnamed/part_000, second server (lines 52-270): /chat, /tts, /image *)

SAMPLE_LEN == 180

\* jsonError(res, code, message, extra)
jsonError(code, message, extra) == Json(code, message, undefined, extra)

\* text = await r.text(); JSON.parse(text) in a try block
parseText(o) ==
  IF o.body.isJson THEN Returned(o.body.data)
  ELSE Thrown("SyntaxError", Slice(o.body.text, SAMPLE_LEN))

\* r.status || 500
StatusOr500(status) == IF status = 0 THEN 500 ELSE status

Part000bChat ==
  /\ At("part_000b", "chat", "start")
  /\ IF ~Truthy(env.GEMINI_KEY)
     THEN Reply(jsonError(400, <<"Missing GEMINI_KEY in server environment.">>, <<>>))
     ELSE LET userMessage == Trim(String(Or(body.message, <<>>)))
          IN IF ~Truthy(userMessage)
             THEN Reply(Json(200, undefined, <<"Please type a message.">>, <<>>))
             ELSE First(Call("generateContent", CHAT_MODEL, userMessage, undefined), "chat_await")
  /\ UNCHANGED <<variant, endpoint, env, body, loc, exchanges, rateWindow, now, admitted, fnVars>>

Part000bChatReturn ==
  /\ At("part_000b", "chat", "chat_await")
  /\ \E o \in Outcomes(ChatBodies) :
       LET r == IF o.net THEN Thrown("FetchError", <<"fetch failed">>) ELSE parseText(o)
       IN /\ Complete(o, r, "part_000b")
          /\ IF o.net
             THEN Finish(jsonError(500, <<"Server error in /chat">>, r.message))
             ELSE IF r.threw
             THEN Finish(jsonError(500, <<"Gemini returned non-JSON (often 404/HTML). Check model + key.">>, r.message))
             ELSE IF ~Ok(o.status) \/ r.data.hasError
             THEN Finish(jsonError(StatusOr500(o.status), Or(ErrorMessage(r.data), <<"Gemini error">>), <<>>))
             ELSE Finish(Json(200, undefined, Or(JoinedParts(r.data), <<"No response">>), <<>>))
  /\ UNCHANGED <<variant, endpoint, env, body, loc, rateWindow, now, admitted, fnVars>>

Part000bTts ==
  /\ At("part_000b", "tts", "start")
  /\ IF ~Truthy(env.GOOGLE_TTS_API_KEY)
     THEN /\ Reply(jsonError(400, <<"Missing GOOGLE_TTS_API_KEY in server environment.">>, <<>>))
          /\ loc' = loc
     ELSE LET text == Trim(String(Or(body.text, <<>>)))
              languageCode == Trim(String(Or(body.languageCode, <<"en-US">>)))
              gender == Trim(String(Or(body.gender, <<"FEMALE">>)))
          IN IF ~Truthy(text)
             THEN /\ Reply(jsonError(400, <<"Please provide text.">>, <<>>))
                  /\ loc' = loc
             ELSE /\ First(Call("text:synthesize", "", text, undefined), "tts_synth")
                  /\ loc' = [loc EXCEPT !.text = text, !.languageCode = languageCode, !.gender = gender]
  /\ UNCHANGED <<variant, endpoint, env, body, exchanges, rateWindow, now, admitted, fnVars>>

Part000bTtsReturn ==
  /\ At("part_000b", "tts", "tts_synth")
  /\ \E o \in Outcomes(SynthBodies) :
       LET r == IF o.net THEN Thrown("FetchError", <<"fetch failed">>) ELSE parseText(o)
       IN /\ Complete(o, r, "part_000b")
          /\ IF o.net
             THEN Finish(jsonError(500, <<"Server error in /tts">>, r.message))
             ELSE IF r.threw
             THEN Finish(jsonError(500, <<"TTS returned non-JSON. (Often API not enabled or wrong key).">>, r.message))
             ELSE IF ~Ok(o.status) \/ r.data.hasError
             THEN Finish(jsonError(StatusOr500(o.status), Or(ErrorMessage(r.data), <<"TTS error">>), <<>>))
             ELSE IF ~Truthy(r.data.audioContent)
             THEN Finish(jsonError(500, <<"TTS returned no audioContent.">>, <<>>))
             ELSE Finish(Json(200, undefined, r.data.audioContent, loc.languageCode \o <<" / ">> \o loc.gender))
  /\ UNCHANGED <<variant, endpoint, env, body, loc, rateWindow, now, admitted, fnVars>>

InlineParts == {[NoInline EXCEPT !.inlineData_data = <<"P", "N", "G">>, !.inlineData_mimeType = <<"image/jpeg">>],
                [NoInline EXCEPT !.inline_data_data = <<"R", "A", "W">>],
                NoInline}
InlineData == {[NoData EXCEPT !.hasParts = TRUE, !.inlineParts = ps] : ps \in SeqsUpTo(InlineParts, MaxParts)}
              \cup {NoData, [NoData EXCEPT !.hasError = TRUE, !.errorMessage = <<"blocked">>]}
InlineBodies == {JsonBody(d) : d \in InlineData} \cup HtmlBodies

\* the first part carrying inlineData.data or inline_data.data, as {mimeType, data}
RECURSIVE FindInline(_)
FindInline(parts) ==
  IF parts = <<>> THEN [found |-> FALSE, mimeType |-> undefined, data |-> undefined]
  ELSE IF Truthy(Head(parts).inlineData_data)
  THEN [found |-> TRUE, mimeType |-> Head(parts).inlineData_mimeType, data |-> Head(parts).inlineData_data]
  ELSE IF Truthy(Head(parts).inline_data_data)
  THEN [found |-> TRUE, mimeType |-> Or(Head(parts).inline_data_mime_type, <<"image/png">>),
        data |-> Head(parts).inline_data_data]
  ELSE FindInline(Tail(parts))

Part000bImage ==
  /\ At("part_000b", "image", "start")
  /\ IF ~Truthy(env.GEMINI_KEY)
     THEN Reply(jsonError(400, <<"Missing GEMINI_KEY in server environment.">>, <<>>))
     ELSE LET prompt == Trim(String(Or(body.prompt, <<>>)))
          IN IF ~Truthy(prompt)
             THEN Reply(jsonError(400, <<"Please provide prompt.">>, <<>>))
             ELSE IF ~Truthy(env.GEMINI_IMAGE_MODEL)
             THEN Reply(jsonError(400, <<"Missing GEMINI_IMAGE_MODEL. Set it in Railway Variables to a model that supports image generation.">>, <<>>))
             ELSE First(Call("generateContent", "GEMINI_IMAGE_MODEL", prompt, undefined), "image_await")
  /\ UNCHANGED <<variant, endpoint, env, body, loc, exchanges, rateWindow, now, admitted, fnVars>>

Part000bImageReturn ==
  /\ At("part_000b", "image", "image_await")
  /\ \E o \in Outcomes(InlineBodies) :
       LET r == IF o.net THEN Thrown("FetchError", <<"fetch failed">>) ELSE parseText(o)
           found == FindInline(r.data.inlineParts)
       IN /\ Complete(o, r, "part_000b")
          /\ IF o.net
             THEN Finish(jsonError(500, <<"Server error in /image">>, r.message))
             ELSE IF r.threw
             THEN Finish(jsonError(500, <<"Image model returned non-JSON (check model name).">>, r.message))
             ELSE IF ~Ok(o.status) \/ r.data.hasError
             THEN Finish(jsonError(StatusOr500(o.status), Or(ErrorMessage(r.data), <<"Image model error">>), <<>>))
             ELSE IF ~found.found
             THEN Finish(jsonError(500, <<"No image data returned. Your model may not support image output for generateContent.">>, <<>>))
             ELSE Finish(Json(200, undefined,
                              <<"data:">> \o Or(found.mimeType, <<"image/png">>) \o <<";base64,">> \o found.data, <<>>))
  /\ UNCHANGED <<variant, endpoint, env, body, loc, rateWindow, now, admitted, fnVars>>

---------------------------------------------------------------------------
(* src/unnamed/part_001: POST /chat and callGemini *)

Part001Chat ==
  /\ At("part_001", "chat", "start")
  /\ IF ~CanTrim(body.message) THEN Crash
     ELSE LET userMessage == Trim(Or(body.message, <<>>))
          IN IF ~Truthy(userMessage)
             THEN Reply(Json(200, undefined, <<"Please type a message.">>, <<>>))
             ELSE IF ~Truthy(env.GEMINI_KEY)
             THEN Reply(Json(200, undefined, <<"Missing GEMINI_KEY in Railway Variables.">>, <<>>))
             ELSE First(Call("generateContent", "gemini-1.5-flash-latest", userMessage, undefined), "chat_await")
  /\ UNCHANGED <<variant, endpoint, env, body, loc, exchanges, rateWindow, now, admitted, fnVars>>

Part001ChatReturn ==
  /\ At("part_001", "chat", "chat_await")
  /\ \E o \in Outcomes(ChatBodies) :
       LET r == IF o.net THEN Thrown("FetchError", <<"fetch failed">>) ELSE responseJson(o)
       IN /\ Complete(o, r, "part_001")
          /\ IF r.threw
             THEN Finish(Json(200, undefined, <<"Server error: ">> \o r.message, <<>>))
             ELSE IF ~Ok(o.status)
             THEN Finish(Json(200, undefined, Or(ErrorMessage(r.data), GeminiApiError(o.status)), <<>>))
             ELSE Finish(Json(200, undefined, Or(JoinedParts(r.data), <<"No response">>), <<>>))
  /\ UNCHANGED <<variant, endpoint, env, body, loc, rateWindow, now, admitted, fnVars>>

---------------------------------------------------------------------------
(* src/unnamed/part_002: fetchJson, /chat, /image, /tts *)

\* fetchJson of part_002: { ok, status, data }, data being {} when the body
\* is not JSON; only a failed fetch throws
Result(ok, status, d) ==
  [threw |-> FALSE, name |-> "", message |-> <<>>, data |-> d, ok |-> ok, status |-> status]

fetchJson_part_002(o) ==
  IF o.net THEN Thrown("FetchError", <<"fetch failed">>)
  ELSE Result(Ok(o.status), o.status, IF o.body.isJson THEN o.body.data ELSE NoData)

safeJson(status, obj) == [obj EXCEPT !.status = status]

Part002Chat ==
  /\ At("part_002", "chat", "start")
  /\ IF ~CanTrim(body.message) THEN Crash
     ELSE LET userMessage == Trim(Or(body.message, <<>>))
          IN IF ~Truthy(userMessage)
             THEN Reply(safeJson(400, Json(0, undefined, <<"Please type a message.">>, <<>>)))
             ELSE IF ~Truthy(env.GEMINI_KEY)
             THEN Reply(safeJson(400, Json(0, undefined, <<"Missing GEMINI_KEY in Railway Variables.">>, <<>>)))
             ELSE First(Call("generateContent", "gemini-2.5-flash", userMessage, undefined), "chat_await")
  /\ UNCHANGED <<variant, endpoint, env, body, loc, exchanges, rateWindow, now, admitted, fnVars>>

Part002ChatReturn ==
  /\ At("part_002", "chat", "chat_await")
  /\ \E o \in Outcomes(ChatBodies) :
       LET r == fetchJson_part_002(o)
       IN /\ Complete(o, r, "part_002")
          /\ IF r.threw
             THEN Finish(safeJson(500, Json(0, undefined, <<"Server error: ">> \o r.message, <<>>)))
             ELSE Finish(safeJson(IF r.ok THEN 200 ELSE 400,
                                  Json(0, undefined,
                                       Or(JoinedParts(r.data), Or(ErrorMessage(r.data), <<"No response">>)),
                                       <<>>)))
  /\ UNCHANGED <<variant, endpoint, env, body, loc, rateWindow, now, admitted, fnVars>>

\* the placeholder /image: it makes no outbound call
Part002Image ==
  /\ At("part_002", "image", "start")
  /\ IF ~CanTrim(body.prompt) THEN Crash
     ELSE LET prompt == Trim(Or(body.prompt, <<>>))
          IN IF ~Truthy(prompt)
             THEN Reply(safeJson(400, Json(0, <<"Missing prompt">>, undefined, <<>>)))
             ELSE IF ~Truthy(env.GEMINI_KEY)
             THEN Reply(safeJson(400, Json(0, <<"Missing GEMINI_KEY in Railway Variables.">>, undefined, <<>>)))
             ELSE Reply(safeJson(200, Json(0, undefined, undefined, <<"Image endpoint placeholder.">>)))
  /\ UNCHANGED <<variant, endpoint, env, body, loc, exchanges, rateWindow, now, admitted, fnVars>>

\* voiceNameMap?.[languageCode]?.[ssmlGender]
voiceNameMap(languageCode, ssmlGender) ==
  IF languageCode = <<"km-KH">>
  THEN (IF ssmlGender = <<"FEMALE">> THEN <<"km-KH-Standard-A">> ELSE <<"km-KH-Standard-B">>)
  ELSE (IF ssmlGender = <<"FEMALE">> THEN <<"en-US-Standard-C">> ELSE <<"en-US-Standard-B">>)

\* as tryCall, but naming the voice whatever useName says
tryCall_AlwaysName(useName, text, languageCode, gender) ==
  LET ssmlGender == IF gender = <<"MALE">> THEN <<"MALE">> ELSE <<"FEMALE">>
  IN Call("text:synthesize", "", text, voiceNameMap(languageCode, ssmlGender))

\* the call tryCall(useName) sends
tryCall(useName, text, languageCode, gender) ==
  LET ssmlGender == IF gender = <<"MALE">> THEN <<"MALE">> ELSE <<"FEMALE">>
      suggested == voiceNameMap(languageCode, ssmlGender)
  IN Call("text:synthesize", "", text,
          IF useName /\ Truthy(suggested) THEN suggested ELSE undefined)

\* { error, languageCode, gender } and { audioContent, used: { languageCode, gender } }
TtsFailed(msg, languageCode, gender) ==
  safeJson(400, Json(0, msg, undefined, <<"languageCode">> \o languageCode \o <<"gender">> \o gender))
TtsAudio(audioContent, languageCode, gender) ==
  safeJson(200, Json(0, undefined, audioContent, <<"languageCode">> \o languageCode \o <<"gender">> \o gender))

Part002Tts ==
  /\ At("part_002", "tts", "start")
  /\ IF ~CanTrim(body.text) \/ ~CanTrim(body.lang) \/ ~CanTrim(body.gender)
     THEN /\ Reply(safeJson(500, Json(0, <<"(req.body?.text || \"\").trim is not a function">>, undefined, <<>>)))
          /\ loc' = loc
     ELSE LET text == Trim(Or(body.text, <<>>))
              lang == Trim(Or(body.lang, <<"km">>))
              gender == toUpperCase(Trim(Or(body.gender, <<"FEMALE">>)))
              languageCode == IF lang = <<"km">> THEN <<"km-KH">> ELSE <<"en-US">>
          IN IF ~Truthy(text)
             THEN /\ Reply(safeJson(400, Json(0, <<"Missing text">>, undefined, <<>>)))
                  /\ loc' = loc
             ELSE IF ~Truthy(env.GOOGLE_TTS_API_KEY)
             THEN /\ Reply(safeJson(400, Json(0, <<"Missing GOOGLE_TTS_API_KEY in Railway Variables.">>, undefined, <<>>)))
                  /\ loc' = loc
             ELSE /\ First(tryCall(TRUE, text, languageCode, gender), "tts_try1")
                  /\ loc' = [loc EXCEPT !.text = text, !.languageCode = languageCode, !.gender = gender]
  /\ UNCHANGED <<variant, endpoint, env, body, exchanges, rateWindow, now, admitted, fnVars>>

\* r1 = await tryCall(true) returns
Part002TtsTry1 ==
  /\ At("part_002", "tts", "tts_try1")
  /\ \E o \in Outcomes(SynthBodies) :
       LET r1 == fetchJson_part_002(o)
       IN /\ Complete(o, r1, "part_002")
          /\ IF r1.threw
             THEN /\ Finish(safeJson(500, Json(0, r1.message, undefined, <<>>)))
                  /\ loc' = loc
             ELSE IF ~r1.ok
             THEN /\ Again(tryCall(FALSE, loc.text, loc.languageCode, loc.gender), "tts_try2")
                  /\ loc' = [loc EXCEPT !.r1 = r1]
             ELSE /\ Finish(TtsAudio(r1.data.audioContent, loc.languageCode, loc.gender))
                  /\ loc' = [loc EXCEPT !.r1 = r1]
  /\ UNCHANGED <<variant, endpoint, env, body, rateWindow, now, admitted, fnVars>>

\* r2 = await tryCall(false) returns
Part002TtsTry2 ==
  /\ At("part_002", "tts", "tts_try2")
  /\ \E o \in Outcomes(SynthBodies) :
       LET r2 == fetchJson_part_002(o)
       IN /\ Complete(o, r2, "part_002")
          /\ IF r2.threw
             THEN Finish(safeJson(500, Json(0, r2.message, undefined, <<>>)))
             ELSE IF ~r2.ok
             THEN Finish(TtsFailed(Or(ErrorMessage(r2.data), Or(ErrorMessage(loc.r1.data), <<"TTS error">>)),
                                   loc.languageCode, loc.gender))
             ELSE Finish(TtsAudio(r2.data.audioContent, loc.languageCode, loc.gender))
  /\ UNCHANGED <<variant, endpoint, env, body, loc, rateWindow, now, admitted, fnVars>>

---------------------------------------------------------------------------
(* src/unnamed/part_003: POST /chat *)

Part003Chat ==
  /\ At("part_003", "chat", "start")
  /\ IF ~CanTrim(body.message) THEN Crash
     ELSE LET userMessage == Trim(Or(body.message, <<>>))
          IN IF ~Truthy(userMessage)
             THEN Reply(Json(200, undefined, <<"Please type a message.">>, <<>>))
             ELSE First(Call("generateContent", "gemini-1.5-flash", userMessage, undefined), "chat_await")
  /\ UNCHANGED <<variant, endpoint, env, body, loc, exchanges, rateWindow, now, admitted, fnVars>>

Part003ChatReturn ==
  /\ At("part_003", "chat", "chat_await")
  /\ \E o \in Outcomes(ChatBodies) :
       LET r == IF o.net THEN Thrown("FetchError", <<"fetch failed">>) ELSE responseJson(o)
       IN /\ Complete(o, r, "part_003")
          /\ IF r.threw
             THEN Finish(Json(200, undefined, <<"Server error: ">> \o r.message, <<>>))
             ELSE Finish(Json(200, undefined,
                              Or(JoinedParts(r.data), Or(ErrorMessage(r.data), <<"No response">>)), <<>>))
  /\ UNCHANGED <<variant, endpoint, env, body, loc, rateWindow, now, admitted, fnVars>>

---------------------------------------------------------------------------
(* The request being handled, and the specification *)

Variants == {"server", "part_000a", "part_000b", "part_001", "part_002", "part_003"}
EndpointsOf(v) == IF v \in {"server", "part_000b", "part_002"} THEN {"chat", "tts", "image"}
                  ELSE {"chat"}

\* GEMINI_IMAGE_MODEL is read by /image of the second server of part_000 alone
EnvsOf(v, e) ==
  [GEMINI_KEY : KeyValues, GOOGLE_TTS_API_KEY : KeyValues,
   GEMINI_IMAGE_MODEL : IF v = "part_000b" /\ e = "image" THEN KeyValues ELSE {undefined}]

BodiesOf(v, e) ==
  IF e = "chat" THEN {[NoBody EXCEPT !.message = m] : m \in TextInputs}
  ELSE IF e = "image" THEN {[NoBody EXCEPT !.prompt = m] : m \in TextInputs}
  ELSE IF v = "server"
  THEN {[NoBody EXCEPT !.text = m, !.languageCode = l, !.gender = g, !.voiceType = t] :
          m \in TextInputs, l \in {undefined, <<"km-KH">>},
          g \in {undefined, <<"male">>}, t \in {undefined, <<"standard">>, <<"Standard">>}}
  ELSE IF v = "part_000b"
  THEN {[NoBody EXCEPT !.text = m, !.languageCode = l, !.gender = g] :
          m \in TextInputs, l \in {undefined, <<"km-KH">>}, g \in {undefined, <<"male">>}}
  ELSE {[NoBody EXCEPT !.text = m, !.lang = l, !.gender = g] :
          m \in TextInputs, l \in {undefined, <<"en">>}, g \in {undefined, <<"male">>}}

Init ==
  /\ variant \in Variants
  /\ endpoint \in EndpointsOf(variant)
  /\ env \in EnvsOf(variant, endpoint)
  /\ body \in BodiesOf(variant, endpoint)
  /\ pc = "start"
  /\ loc = NoLoc
  /\ calls = <<>>
  /\ inflight = 0
  /\ exchanges = <<>>
  /\ res = <<>>
  /\ rateWindow = <<>>
  /\ now = 0
  /\ admitted = <<>>
  /\ argRaw = <<>>
  /\ argMaxLen = 0
  /\ normalized = <<>>

Next ==
  \/ ServerChat
  \/ ServerChatReturn
  \/ ServerImage
  \/ ServerImageTry1
  \/ ServerImageRewrite
  \/ ServerImageTry2
  \/ ServerTts
  \/ ServerTtsVoices
  \/ ServerTtsSynth
  \/ Part000aChat
  \/ Part000aChatReturn
  \/ Part000bChat
  \/ Part000bChatReturn
  \/ Part000bTts
  \/ Part000bTtsReturn
  \/ Part000bImage
  \/ Part000bImageReturn
  \/ Part001Chat
  \/ Part001ChatReturn
  \/ Part002Chat
  \/ Part002ChatReturn
  \/ Part002Image
  \/ Part002Tts
  \/ Part002TtsTry1
  \/ Part002TtsTry2
  \/ Part003Chat
  \/ Part003ChatReturn

Spec == Init /\ [][Next]_vars

---------------------------------------------------------------------------
(* The chat fallback orchestrator.  No server under src/ has one: it is      *)
(* modelled from the specification, sections 4.1 (Provider Client), 4.2      *)
(* (Response Normalizer, text) and 4.3 (Fallback Orchestrator, chat).        *)

\* the fixed, ordered list of fallback model ids
FALLBACK_MODELS == <<"fallback-model-1", "fallback-model-2">>

\* error messages of the provider, in chunks; the pattern is matched on chunks
NotFoundMessages == {<<"models/x is ", "not found", " for API version v1">>,
                     <<"models/x is ", "not supported", " for generateContent">>}
OtherMessages == {<<"models/x is ", "Not Found">>, <<"quota exceeded">>}

FallbackData == {[NoData EXCEPT !.hasError = TRUE, !.errorMessage = m] : m \in NotFoundMessages \cup OtherMessages}
                \cup {[NoData EXCEPT !.hasParts = TRUE, !.parts = ps] : ps \in {<<<<"H", "i", " ">>, <<"y", "o">>>>, <<>>}}
FallbackBodies == {JsonBody(d) : d \in FallbackData} \cup {TextBody(<<"<", "h", "t", "m", "l", ">">>)}

\* invoke: MalformedProviderResponse with a bounded prefix of the text when the
\* body is not JSON, ProviderError with the provider's message when the
\* status is a failure or the body has an error field
invoke(o) ==
  IF o.net THEN Thrown("NetworkError", <<"fetch failed">>)
  ELSE IF ~o.body.isJson
       THEN Thrown("MalformedProviderResponse", Slice(o.body.text, SNIPPET_LEN))
  ELSE IF ~Ok(o.status) \/ o.body.data.hasError
       THEN Thrown("ProviderError", Or(ErrorMessage(o.body.data), <<"Request failed ">> \o StatusText(o.status)))
  ELSE Returned(o.body.data)

\* extract(response, text): the text fragments in document order, or the sentinel
extractText(data) == Or(JoinedParts(data), <<"No response">>)

\* the "model not found / not supported" pattern: a case-sensitive substring
IsModelNotFound(message) ==
  \E i \in 1..Len(message) : message[i] \in {"not found", "not supported"}

\* as FallbackNextModel, but skipping a model of the list
FallbackNextModel_Skip(tried) == IF tried + 2 <= Len(FALLBACK_MODELS) THEN tried + 2 ELSE 0

\* the index of the fallback to try after `tried` of them failed; 0 when none is left
FallbackNextModel(tried) == IF tried < Len(FALLBACK_MODELS) THEN tried + 1 ELSE 0

FallbackChat ==
  /\ At("spec_chat", "chat", "start")
  /\ First(Call("generateContent", CHAT_MODEL, body.message, undefined), "fallback_primary")
  /\ UNCHANGED <<variant, endpoint, env, body, loc, exchanges, rateWindow, now, admitted, fnVars>>

\* the primary model answered
FallbackChatPrimary ==
  /\ At("spec_chat", "chat", "fallback_primary")
  /\ \E o \in Outcomes(FallbackBodies) :
       LET r == invoke(o)
           next == FallbackNextModel(0)
       IN /\ Complete(o, r, "spec_chat")
          /\ IF ~r.threw
             THEN /\ Finish(Json(200, undefined, extractText(r.data), <<>>))
                  /\ loc' = loc
             ELSE IF IsModelNotFound(r.message) /\ next # 0
             THEN /\ Again(Call("generateContent", FALLBACK_MODELS[next], body.message, undefined), "fallback_next")
                  /\ loc' = [loc EXCEPT !.tried = next]
             ELSE /\ Finish(Json(200, r.message, undefined, <<>>))
                  /\ loc' = loc
  /\ UNCHANGED <<variant, endpoint, env, body, rateWindow, now, admitted, fnVars>>

\* a fallback model answered
FallbackChatNext ==
  /\ At("spec_chat", "chat", "fallback_next")
  /\ \E o \in Outcomes(FallbackBodies) :
       LET r == invoke(o)
           next == FallbackNextModel(loc.tried)
       IN /\ Complete(o, r, "spec_chat")
          /\ IF ~r.threw
             THEN /\ Finish(Json(200, undefined, extractText(r.data), <<>>))
                  /\ loc' = loc
             ELSE IF next # 0
             THEN /\ Again(Call("generateContent", FALLBACK_MODELS[next], body.message, undefined), "fallback_next")
                  /\ loc' = [loc EXCEPT !.tried = next]
             ELSE /\ Finish(Json(200, r.message, undefined, <<>>))
                  /\ loc' = loc
  /\ UNCHANGED <<variant, endpoint, env, body, rateWindow, now, admitted, fnVars>>

FallbackInit ==
  /\ variant = "spec_chat"
  /\ endpoint = "chat"
  /\ env \in [GEMINI_KEY : {<<"k">>}, GOOGLE_TTS_API_KEY : KeyValues, GEMINI_IMAGE_MODEL : {undefined}]
  /\ body \in {[NoBody EXCEPT !.message = m] : m \in {<<"h", "i">>, <<"y", "o">>}}
  /\ pc = "start"
  /\ loc = NoLoc
  /\ calls = <<>>
  /\ inflight = 0
  /\ exchanges = <<>>
  /\ res = <<>>
  /\ rateWindow = <<>>
  /\ now = 0
  /\ admitted = <<>>
  /\ argRaw = <<>>
  /\ argMaxLen = 0
  /\ normalized = <<>>

FallbackNext ==
  \/ FallbackChat
  \/ FallbackChatPrimary
  \/ FallbackChatNext

FallbackSpec == FallbackInit /\ [][FallbackNext]_vars

---------------------------------------------------------------------------
(* The rate limiter.  No server under src/ has one: it is modelled from the  *)
(* specification, sections 3 (RateWindow) and 4.4 (Rate Limiter).            *)

\* the trailing window, in seconds
WINDOW == 60

\* the configured limit N (the specification's example is 20)
RateLimit == 2
\* the clock advances in steps of TickSeconds, up to MaxTime
TickSeconds == 30
MaxTime == 120
\* requests followed
MaxRequests == 5

Clients == {"10.0.0.1", "10.0.0.2"}

\* prune timestamps older than the window
Prune(stamps, t) ==
  LET recent(x) == t - x <= WINDOW
  IN SelectSeq(stamps, recent)

\* admit(clientId): reject when the pruned count exceeds the limit
Admits(stamps, t) == ~(Len(Prune(stamps, t)) > RateLimit)

RateTick ==
  /\ variant = "spec_rate"
  /\ now + TickSeconds <= MaxTime
  /\ now' = now + TickSeconds
  /\ UNCHANGED <<variant, endpoint, env, body, pc, loc, calls, inflight, exchanges, res,
                 rateWindow, admitted, fnVars>>

\* a /chat request of client c arrives: admitted (recorded, and the provider
\* is called) or rejected (not recorded, no call)
RateRequest ==
  /\ variant = "spec_rate"
  /\ Len(calls) + Len(res) < MaxRequests
  /\ \E c \in Clients :
       IF Admits(rateWindow[c], now)
       THEN /\ rateWindow' = [rateWindow EXCEPT ![c] = Append(Prune(rateWindow[c], now), now)]
            /\ admitted' = Append(admitted, <<c, now>>)
            /\ calls' = Append(calls, Call("generateContent", CHAT_MODEL, body.message, undefined))
            /\ res' = res
       ELSE /\ rateWindow' = [rateWindow EXCEPT ![c] = Prune(rateWindow[c], now)]
            /\ admitted' = admitted
            /\ calls' = calls
            /\ res' = Append(res, Json(429, <<"RateLimited">>, undefined, <<>>))
  /\ UNCHANGED <<variant, endpoint, env, body, pc, loc, inflight, exchanges, now, fnVars>>

RateInit ==
  /\ variant = "spec_rate"
  /\ endpoint = "chat"
  /\ env = [GEMINI_KEY |-> <<"k">>, GOOGLE_TTS_API_KEY |-> undefined, GEMINI_IMAGE_MODEL |-> undefined]
  /\ body = [NoBody EXCEPT !.message = <<"h", "i">>]
  /\ pc = "start"
  /\ loc = NoLoc
  /\ calls = <<>>
  /\ inflight = 0
  /\ exchanges = <<>>
  /\ res = <<>>
  /\ rateWindow = [c \in Clients |-> <<>>]
  /\ now = 0
  /\ admitted = <<>>
  /\ argRaw = <<>>
  /\ argMaxLen = 0
  /\ normalized = <<>>

RateNext ==
  \/ RateTick
  \/ RateRequest

RateSpec == RateInit /\ [][RateNext]_vars

---------------------------------------------------------------------------
(* src/server.js normalizePrompt on its own: the function is applied to an   *)
(* argument, and then to the value it returned.                              *)

\* longest argument raw, in characters
MaxRawLen == 4
\* largest argument maxLen
MaxMaxLen == 3

\* the arguments raw: undefined, a number, and the strings of a letter, a
\* space and a newline
RawInputs == {undefined, Num42} \cup SeqsUpTo({"a", " ", "\n"}, MaxRawLen)

CallNormalizePrompt ==
  /\ Len(normalized) < 2
  /\ normalized' = Append(normalized,
                          normalizePrompt(IF normalized = <<>> THEN argRaw
                                          ELSE normalized[Len(normalized)], argMaxLen))
  /\ UNCHANGED <<variant, endpoint, env, body, pc, loc, calls, inflight, exchanges, res,
                 rateWindow, now, admitted, argRaw, argMaxLen>>

NormalizeInit ==
  /\ variant = "server"
  /\ endpoint = "image"
  /\ env = [GEMINI_KEY |-> <<"k">>, GOOGLE_TTS_API_KEY |-> undefined, GEMINI_IMAGE_MODEL |-> undefined]
  /\ body = NoBody
  /\ pc = "start"
  /\ loc = NoLoc
  /\ calls = <<>>
  /\ inflight = 0
  /\ exchanges = <<>>
  /\ res = <<>>
  /\ rateWindow = <<>>
  /\ now = 0
  /\ admitted = <<>>
  /\ argRaw \in RawInputs
  /\ argMaxLen \in 0..MaxMaxLen
  /\ normalized = <<>>

NormalizeNext ==
  \/ CallNormalizePrompt

NormalizeSpec == NormalizeInit /\ [][NormalizeNext]_vars

---------------------------------------------------------------------------
(* Vocabulary of the claims *)

\* the request's message / text / prompt
InputOf == IF endpoint = "chat" THEN body.message
           ELSE IF endpoint = "tts" THEN body.text ELSE body.prompt

\* missing, empty or whitespace-only input; non-empty string input
EmptyInput == InputOf = undefined \/ (IsString(InputOf) /\ Trim(InputOf) = <<>>)
NonEmptyInput == IsString(InputOf) /\ Trim(InputOf) # <<>>

\* the credential the endpoint needs
NeededKey == IF endpoint = "tts" THEN env.GOOGLE_TTS_API_KEY ELSE env.GEMINI_KEY

\* the provider answered 2xx with a JSON content type and a JSON body
Success(o) == ~o.net /\ o.status = 200 /\ o.ct = "application/json; charset=UTF-8" /\ o.body.isJson

\* the call did not succeed / it completed with a non-success HTTP status
Failed(o) == o.net \/ o.status # 200
HttpFailed(o) == ~o.net /\ o.status # 200

\* no field of predictions[0] carries an image payload
NoPayload(o) ==
  \A f \in {"bytesBase64Encoded", "image_bytesBase64Encoded", "imageBytes", "image_imageBytes"} :
    o.body.data.prediction[f] \in {undefined, <<>>}

Answered == pc = "done" /\ Len(res) = 1

---------------------------------------------------------------------------
(* C1: /image of src/server.js, rewrite retry *)

FirstSynthesisEmpty ==
  /\ variant = "server" /\ endpoint = "image" /\ pc = "done"
  /\ Len(exchanges) >= 1
  /\ Success(exchanges[1].o) /\ NoPayload(exchanges[1].o)

\* C1 as claimed: when the first synthesis succeeds without a payload the
\* handler makes exactly one rewrite call followed by exactly one further
\* synthesis call and then answers; a second synthesis without payload is
\* answered with the no-image error.
C1_Original ==
  FirstSynthesisEmpty =>
    /\ Len(calls) = 3
    /\ calls[2].api = "generateContent"
    /\ calls[3].api = "imagen:predict"
    /\ Len(res) = 1
    /\ (Success(exchanges[3].o) /\ NoPayload(exchanges[3].o)) => res[1].error = NoImageError

\* C1 amended: when the first synthesis succeeds without a payload the handler
\* makes exactly one rewrite call with the normalized prompt; if the rewrite
\* call succeeds it makes exactly one further synthesis call with the rewritten
\* prompt, and answers the no-image error when that one has no payload either;
\* if the rewrite call fails it answers an image error without a further
\* call.  In either case it answers once and makes at most three calls.
C1_RewriteRetryOnce ==
  FirstSynthesisEmpty =>
    /\ Len(res) = 1
    /\ Len(calls) = Len(exchanges)
    /\ calls[2] = Call("generateContent", CHAT_MODEL, calls[1].arg, undefined)
    /\ IF Success(exchanges[2].o)
       THEN /\ Len(calls) = 3
            /\ calls[3] = Call("imagen:predict", IMAGEN_MODEL,
                               rewriteImagePrompt(exchanges[2].o.body.data), undefined)
            /\ (Success(exchanges[3].o) /\ NoPayload(exchanges[3].o)) => res[1].error = NoImageError
       ELSE /\ Len(calls) = 2
            /\ res[1].error = <<"Image error: ">> \o exchanges[2].r.message

C1_Witness ==
  /\ FirstSynthesisEmpty
  /\ Len(calls) = 3
  /\ Success(exchanges[3].o) /\ NoPayload(exchanges[3].o)
  /\ res = <<Json(200, NoImageError, <<>>, <<>>)>>

---------------------------------------------------------------------------
(* C3: /tts of src/unnamed/part_002, retry without the voice name *)

Part002TtsDone ==
  /\ variant = "part_002" /\ endpoint = "tts" /\ pc = "done"
  /\ Len(calls) >= 1

LanguageAndGender == <<"languageCode">> \o loc.languageCode \o <<"gender">> \o loc.gender

\* C3 as claimed: the first call names a voice; a second call, without the
\* name, is made if and only if the first fails; when the second fails too the
\* answer is an error with the requested languageCode and gender; never a
\* third call.
C3_Original ==
  Part002TtsDone =>
    /\ calls[1].name # undefined
    /\ Len(calls) <= 2
    /\ (Failed(exchanges[1].o) <=> Len(calls) = 2)
    /\ (Len(calls) = 2 => calls[2].name = undefined)
    /\ (Failed(exchanges[Len(exchanges)].o) /\ Failed(exchanges[1].o)) =>
          /\ res[1].error # undefined
          /\ res[1].extra = LanguageAndGender

\* C3 amended: the first call names a voice; a second call, without the name,
\* is made if and only if the first completes with a non-success HTTP status;
\* when the second completes with a non-success status too the answer is a
\* 400 error with the requested languageCode and gender; never a third call.
\* A call that fails in the network ends the request with a 500 error that
\* carries the message alone, and no further call.
C3_RetryWithoutVoiceName ==
  Part002TtsDone =>
    /\ calls[1].name # undefined
    /\ Len(calls) <= 2
    /\ Len(calls) = Len(exchanges)
    /\ (HttpFailed(exchanges[1].o) <=> Len(calls) = 2)
    /\ (Len(calls) = 2 => calls[2] = [calls[1] EXCEPT !.name = undefined])
    /\ (Len(calls) = 2 /\ HttpFailed(exchanges[2].o)) =>
          /\ res[1].status = 400
          /\ res[1].error # undefined
          /\ res[1].extra = LanguageAndGender
    /\ exchanges[Len(exchanges)].o.net =>
          res = <<Json(500, <<"fetch failed">>, undefined, <<>>)>>

C3_Witness ==
  /\ Part002TtsDone
  /\ Len(calls) = 2
  /\ HttpFailed(exchanges[2].o)
  /\ res[1].extra = <<"languageCode", "en-US", "gender", "MALE">>

---------------------------------------------------------------------------
(* C4: /tts of src/server.js, voiceType "standard" *)

StandardNamed == {VoiceStandardMale, VoiceStandardFemale, VoiceKhmer}
NeuralNamed == {VoiceNeuralMale, VoiceWavenetFemale}

RequestedLanguage == IF body.languageCode = undefined THEN <<"en-US">> ELSE body.languageCode
RequestedGender == IF body.gender = <<"male">> THEN <<"MALE">> ELSE <<"FEMALE">>

Matches(v) == /\ RequestedLanguage \in v.languageCodes
              /\ (IF v.ssmlGender \in {<<"MALE">>, <<"male">>} THEN <<"MALE">> ELSE <<"FEMALE">>)
                    = RequestedGender

\* the catalog the voices listing returned
Catalog == exchanges[1].o.body.data.voices

StandardRequestWithBothTiers ==
  /\ variant = "server" /\ endpoint = "tts"
  /\ body.voiceType = <<"standard">>
  /\ Len(exchanges) >= 1
  /\ Success(exchanges[1].o) /\ exchanges[1].o.body.data.voicesIsArray
  /\ \E i \in 1..Len(Catalog) : Catalog[i] \in StandardNamed /\ Matches(Catalog[i])
  /\ \E i \in 1..Len(Catalog) : Catalog[i] \in NeuralNamed /\ Matches(Catalog[i])

\* C4: for voiceType "standard" and a catalog holding a Standard and a neural
\* voice of the requested language and gender, in any order, the chosen voice
\* is a non-neural voice of the catalog with the requested language and gender.
C4_StandardVoiceChosen ==
  StandardRequestWithBothTiers =>
    /\ loc.chosen \in StandardNamed
    /\ Matches(loc.chosen)
    /\ \E i \in 1..Len(Catalog) : Catalog[i] = loc.chosen
    /\ calls[2].name = loc.chosen.name

C4_Witness ==
  /\ StandardRequestWithBothTiers
  /\ Catalog[1] \in NeuralNamed /\ Matches(Catalog[1])
  /\ loc.chosen = VoiceStandardMale
  /\ pc = "tts_synth"

---------------------------------------------------------------------------
(* C6: empty input *)

PleaseProvideInput ==
  IF endpoint = "chat" THEN Json(200, undefined, <<"Please type a message.">>, <<>>)
  ELSE IF endpoint = "tts" THEN Json(200, <<"Please type text for TTS.">>, <<>>, <<>>)
  ELSE Json(200, <<"Please type a prompt.">>, <<>>, <<>>)

\* C6 as claimed: in src/server.js a request to /chat, /tts or /image whose
\* input is missing, empty or whitespace-only makes no outbound call and is
\* answered with the endpoint's "please provide input" message, whatever
\* credentials are configured.
C6_Original ==
  (variant = "server" /\ EmptyInput) =>
    /\ calls = <<>>
    /\ pc = "done" => res = <<PleaseProvideInput>>

---------------------------------------------------------------------------
(* C7: missing credential *)

MissingCredentialMessages ==
  {<<"Missing GEMINI_KEY in server variables.">>,
   <<"Missing GOOGLE_TTS_API_KEY in Railway Variables.">>,
   <<"Missing GEMINI_KEY in Railway Variables.">>,
   <<"Missing GEMINI_KEY in server environment.">>,
   <<"Missing GOOGLE_TTS_API_KEY in server environment.">>}

\* C7 as claimed: in every variant, when the credential the endpoint needs is
\* unset no outbound call is ever made, and a request with non-empty input is
\* answered with the missing-credential message.
C7_Original ==
  NeededKey = undefined =>
    /\ calls = <<>>
    /\ (pc = "done" /\ NonEmptyInput) =>
          /\ Len(res) = 1
          /\ (res[1].value \in MissingCredentialMessages \/ res[1].error \in MissingCredentialMessages)

---------------------------------------------------------------------------
(* C8, C9: the provider client fetchJson *)

\* C8 as claimed: whenever the body of a provider response is not valid JSON,
\* whatever its status and content type, fetchJson (src/server.js and
\* src/unnamed/part_002) fails with the malformed-response error, which carries
\* at most 260 characters of the body; no parse exception escapes and no value
\* is returned.
C8_Original ==
  \A i \in 1..Len(exchanges) :
    (/\ exchanges[i].client \in {"server", "part_002"}
     /\ ~exchanges[i].o.net
     /\ ~exchanges[i].o.body.isJson)
    => /\ exchanges[i].r.threw
       /\ exchanges[i].r.name = "Error"
       /\ \E n \in 0..SNIPPET_LEN :
            exchanges[i].r.message =
              <<"Non-JSON response ">> \o StatusText(exchanges[i].o.status) \o <<". ">>
                \o SubSeq(exchanges[i].o.body.text, 1, n)

\* C9 as claimed: whenever the body parses as JSON, fetchJson of src/server.js
\* fails if the status is not success or the body has an error field; a 2xx
\* response with an error field is never returned as a result.
C9_Original ==
  \A i \in 1..Len(exchanges) :
    (/\ exchanges[i].client = "server"
     /\ ~exchanges[i].o.net
     /\ exchanges[i].o.body.isJson
     /\ (exchanges[i].o.status # 200 \/ exchanges[i].o.body.data.hasError))
    => exchanges[i].r.threw

---------------------------------------------------------------------------
(* C10: the chat reply *)

\* the text fields of the parts, in order, end to end
RECURSIVE TextsInOrder(_)
TextsInOrder(parts) ==
  IF parts = <<>> THEN <<>>
  ELSE (IF Head(parts) = undefined THEN <<>> ELSE Head(parts)) \o TextsInOrder(Tail(parts))

ChatAnswered(v) ==
  /\ variant = v /\ endpoint = "chat" /\ pc = "done"
  /\ Len(exchanges) = 1
  /\ Success(exchanges[1].o)

PartsOfReply == IF exchanges[1].o.body.data.hasParts
                THEN TextsInOrder(exchanges[1].o.body.data.parts) ELSE <<>>

\* C10 as claimed: for a successful chat response the reply of /chat
\* (src/server.js, and the first server of src/unnamed/part_000) is exactly the
\* text of the parts end to end, and "No response" when they hold no text.
C10_Original ==
  (ChatAnswered("server") \/ ChatAnswered("part_000a")) =>
    res = <<Json(200, undefined,
                 IF PartsOfReply # <<>> THEN PartsOfReply ELSE <<"No response">>, <<>>)>>

\* C10 amended: for a successful chat response the reply of /chat of
\* src/server.js is the text of the parts end to end with leading and trailing
\* whitespace removed, and "No response" when nothing but whitespace is left;
\* the first server of src/unnamed/part_000 replies the text end to end as it
\* is, and "No response" when it is empty.  The request does not fail.
C10_ReplyIsTrimmedConcatenation ==
  /\ ChatAnswered("server") =>
       res = <<Json(200, undefined,
                    IF Trim(PartsOfReply) # <<>> THEN Trim(PartsOfReply) ELSE <<"No response">>, <<>>)>>
  /\ ChatAnswered("part_000a") =>
       res = <<Json(200, undefined,
                    IF PartsOfReply # <<>> THEN PartsOfReply ELSE <<"No response">>, <<>>)>>

C10_Witness ==
  /\ ChatAnswered("server")
  /\ exchanges[1].o.body.data.parts = <<<<"H", "i", " ">>, <<"y", "o">>>>
  /\ res[1].value = <<"H", "i", " ", "y", "o">>

C10_TrimWitness ==
  /\ ChatAnswered("server")
  /\ exchanges[1].o.body.data.parts = <<<<"y", "o">>, <<"H", "i", " ">>>>
  /\ res[1].value = <<"y", "o", "H", "i">>

---------------------------------------------------------------------------
(* C2: chat fallback models *)

\* the provider answered with a result / with a "model not found" error
Answer(o) == ~o.net /\ o.body.isJson /\ o.status = 200 /\ ~o.body.data.hasError
ModelNotFound(o) ==
  /\ ~o.net /\ o.body.isJson /\ o.body.data.hasError
  /\ o.body.data.errorMessage \in NotFoundMessages

PrimaryNotFound ==
  /\ variant = "spec_chat" /\ pc = "done"
  /\ Len(exchanges) >= 1
  /\ ModelNotFound(exchanges[1].o)

---------------------------------------------------------------------------
(* C5: the rate limit *)

\* admissions of client c in the 60-second window that ends at time t
AdmittedIn(c, t) ==
  {i \in 1..Len(admitted) : /\ admitted[i][1] = c
                            /\ admitted[i][2] <= t
                            /\ t - admitted[i][2] < WINDOW}

\* C5 as claimed: for every client, no trailing 60-second window holds more
\* than N admissions; a request over the limit is rejected unrecorded and
\* without an outbound call.
C5_Original ==
  /\ \A c \in Clients : \A t \in 0..now : Cardinality(AdmittedIn(c, t)) <= RateLimit
  /\ Len(calls) = Len(admitted)

---------------------------------------------------------------------------
(* C11: outbound calls of one request *)

\* C11: a request issues at most 3 outbound provider calls, and a call is
\* started only after the request's previous call has completed: at most one
\* call is in flight, and all calls but the last have completed
C11_AtMostThreeSequentialCalls ==
  /\ Len(calls) <= 3
  /\ inflight <= 1
  /\ Len(calls) - Len(exchanges) = inflight

\* a request that made three calls, one after the other, and was answered
C11_Witness ==
  /\ Len(calls) = 3 /\ Len(exchanges) = 3 /\ inflight = 0
  /\ Answered

---------------------------------------------------------------------------
(* C12: every request is answered *)

\* a response with a human-readable message: a reply, an error, or a note
HumanReadable(r) == Truthy(r.error) \/ Truthy(r.value) \/ Truthy(r.extra)

\* C12 as claimed: whatever the request body and the provider's outcomes, no
\* failure escapes the handler, and a handler that has ended has answered
\* with exactly one JSON response carrying a human-readable message
C12_Original ==
  /\ pc # "crashed"
  /\ Len(res) <= 1
  /\ pc = "done" => (Len(res) = 1 /\ HumanReadable(res[1]))

---------------------------------------------------------------------------
(* C13: normalizePrompt *)

NoOuterWhitespace(s) == s = <<>> \/ (s[1] \notin WS /\ s[Len(s)] \notin WS)
NoWhitespaceRun(s) == \A i \in 1..(Len(s) - 1) : ~(s[i] \in WS /\ s[i + 1] \in WS)

\* C13 as claimed: normalizePrompt returns a string of length at most maxLen
\* without leading or trailing whitespace and without a run of two or more
\* whitespace characters, and applied to its own result it returns it unchanged
C13_Original ==
  /\ \A i \in 1..Len(normalized) :
        /\ Len(normalized[i]) <= argMaxLen
        /\ NoOuterWhitespace(normalized[i])
        /\ NoWhitespaceRun(normalized[i])
  /\ Len(normalized) = 2 => normalized[2] = normalized[1]

---------------------------------------------------------------------------
(* C14: the prompt of the image-synthesis calls *)

\* C14 as claimed: every image-synthesis call of /image carries a non-empty
\* prompt, the one made after the prompt rewrite included
C14_Original ==
  endpoint = "image" =>
    \A i \in 1..Len(calls) :
      calls[i].api = "imagen:predict" => calls[i].arg # <<>>

---------------------------------------------------------------------------
(* C15: what /tts relays as a success *)

\* the response is a success: HTTP 200 and no error field
TtsSuccess(r) == r.status = 200 /\ r.error = undefined

\* the audio the last completed call returned
LastAudio == exchanges[Len(exchanges)].o.body.data.audioContent

\* C15 as claimed: a success of /tts carries non-empty audio content, taken
\* from a provider response that was successful, parsed as JSON and contained
\* audioContent
C15_Original ==
  (endpoint = "tts" /\ pc = "done" /\ TtsSuccess(res[1])) =>
    /\ Len(exchanges) >= 1
    /\ LET o == exchanges[Len(exchanges)].o
       IN ~o.net /\ Ok(o.status) /\ o.body.isJson /\ Truthy(LastAudio)
    /\ res[1].value \in {LastAudio, <<"data:audio/mpeg;base64,">> \o LastAudio}

====
